---- MODULE Spec2Model ----
(***************************************************************************)
(* Model of the asset-audit server (src/unnamed/part_000): the audit       *)
(* store, the submit / resolve / delete handlers, the asset snapshot cache *)
(* and the lookup handlers.  Every handler is an async function: it runs   *)
(* atomically from one await to the next, and other requests run while it  *)
(* is suspended on a remote call.  Each request slot of `req` holds one    *)
(* handler invocation: where it is suspended (pc) and its locals.  The     *)
(* remote Snipe-IT service is the environment: every reply is a            *)
(* nondeterministic choice.                                                *)
(***************************************************************************)
EXTENDS Integers, Sequences, FiniteSets, TLC

VARIABLES
    audits,      \* the rows of table audits: id -> row (db/audits.db)
    lastId,      \* the AUTOINCREMENT sequence of audits.id
    assetCache,  \* the process-wide cache slot {data, timestamp}
    clock,       \* wall-clock time in ms (Date.now())
    req,         \* request slot -> the handler invocation running in it
    sent,        \* the response sent last, with the slot and handler that sent it
    nreq         \* the number of requests received so far

vars == <<audits, lastId, assetCache, clock, req, sent, nreq>>

-----------------------------------------------------------------------------
(* Bounds of the model.                                                    *)

MaxAudits == 2
MaxBatch == 2
MaxRequests == 3
MaxPages == 2
MaxAssets == 2
MaxClock == 900001
TickStep == 300000
StartTime == 1000

Req == {1, 2}
AuditIds == 1..MaxAudits

-----------------------------------------------------------------------------
(* JavaScript values as they arrive in JSON bodies.  A string's val is a   *)
(* code: 0 is the empty string, n > 0 the decimal numeral of n.            *)

Undef == [type |-> "undefined", val |-> 0]
JNull == [type |-> "null", val |-> 0]
Num(n) == [type |-> "number", val |-> n]
Str(n) == [type |-> "string", val |-> n]

\* a comparison that converts between types (a == b)
StrictEqLoose(a, b) ==
    \/ a.type = b.type /\ a.val = b.val
    \/ a.type \in {"undefined", "null"} /\ b.type \in {"undefined", "null"}
    \/ a.type \in {"number", "string"} /\ b.type \in {"number", "string"}
       /\ a.val = b.val

\* a === b
StrictEq(a, b) ==
    a.type = b.type /\ a.val = b.val

\* !v is false; an object is always truthy
Truthy(v) ==
    /\ v.type \notin {"undefined", "null"}
    /\ v.type \in {"number", "string"} => v.val # 0

\* a || b
OrElse(a, b) == IF Truthy(a) THEN a ELSE b

ADMIN_PASSWORD == "admin123"
Admin == Str(99)

\* better-sqlite3 binds null and undefined as SQL NULL
SqlNull(v) == v.type \in {"undefined", "null"}

\* a column of INTEGER affinity stores a numeral as the integer it spells
IntegerAffinity(v) ==
    IF v.type = "string" /\ v.val # 0 THEN Num(v.val) ELSE v

\* new Date().toISOString()
IsoString(t) == Str(t)

-----------------------------------------------------------------------------
(* Request slots.                                                          *)

Idle == [kind |-> "none", pc |-> "idle"]

\* the next request runs in slot r, the lowest slot that is free
Accept(r) ==
    /\ req[r].pc = "idle"
    /\ \A q \in Req : q < r => req[q].pc # "idle"
    /\ nreq < MaxRequests
    /\ nreq' = nreq + 1

\* res.json(...) / res.status(code).json(...) ends the invocation in slot r
Respond(r, k, response) ==
    /\ req' = [req EXCEPT ![r] = Idle]
    /\ sent' = [slot |-> r, kind |-> k, resp |-> response]

Err(code, text) == [code |-> code, error |-> text]

Init ==
    /\ audits = <<>>
    /\ lastId = 0
    /\ assetCache = [data |-> JNull, timestamp |-> JNull]
    /\ clock = StartTime
    /\ req = [r \in Req |-> Idle]
    /\ sent = [slot |-> 0, kind |-> "none"]
    /\ nreq = 0

\* time passes
Tick ==
    /\ clock + TickStep <= MaxClock
    /\ clock' = clock + TickStep
    /\ UNCHANGED <<audits, lastId, assetCache, req, sent, nreq>>

-----------------------------------------------------------------------------
(* POST /api/audit                                                         *)

Tokens == {"", "token"}
Passwords == {ADMIN_PASSWORD, "wrong"}

\* the bodies the scanning page sends for an asset recorded at location 1
ScanBodies ==
    [asset_id : {Num(7)},
     expected_location_id : {Num(1)},
     actual_location_id : {Num(1), Num(2)}]

AuditBodies ==
    [asset_id : {Num(7), JNull},
     expected_location_id : {Num(1), Str(1), JNull, Undef},
     actual_location_id : {Num(1), Num(2), Str(1), JNull, Undef}]

\* const status = expected_location_id === actual_location_id ? ...
ComputeStatus(body) ==
    IF StrictEq(body.expected_location_id, body.actual_location_id)
    THEN "match" ELSE "mismatch"

\* the NOT NULL columns of the INSERT
InsertOk(body) ==
    /\ ~SqlNull(body.asset_id)
    /\ ~SqlNull(body.actual_location_id)

NewRow(body, status, posted) ==
    [asset_id |-> IntegerAffinity(body.asset_id),
     expected_location_id |-> IF SqlNull(body.expected_location_id) THEN JNull
                              ELSE IntegerAffinity(body.expected_location_id),
     actual_location_id |-> IntegerAffinity(body.actual_location_id),
     status |-> status,
     snipeit_audit_posted |-> posted,
     resolved_at |-> JNull,
     resolved_by |-> JNull]

InFlight(k) == {r \in Req : req[r].kind = k}

\* the remote service answers the call a suspended handler awaits
RemoteReplies(r, ok) ==
    /\ req[r].pc \in {"await_post", "await_patch"}
    /\ req' = [req EXCEPT ![r].pc = IF req[r].pc = "await_post"
                                     THEN "resume_post" ELSE "resume_patch",
                          ![r].reply = ok]
    /\ UNCHANGED <<audits, lastId, assetCache, clock, sent, nreq>>

\* up to the await of axios.post(.../hardware/audit)
PostAuditRequest(r, token, body) ==
    /\ Accept(r)
    /\ IF token = ""
       THEN Respond(r, "audit", Err(401, "API token required"))
       ELSE /\ lastId + Cardinality(InFlight("audit")) < MaxAudits
            /\ req' = [req EXCEPT ![r] =
                        [kind |-> "audit", pc |-> "await_post", reply |-> FALSE,
                         body |-> body,
                         status |-> ComputeStatus(body),
                         snipeitAuditPosted |-> 0]]
            /\ UNCHANGED sent
    /\ UNCHANGED <<audits, lastId, assetCache, clock>>

\* a handler that lets the remote failure escape: no local save
PostAuditResumePropagates(r) ==
    /\ req[r].kind = "audit" /\ req[r].pc = "resume_post"
    /\ LET posted == IF req[r].reply THEN 1 ELSE req[r].snipeitAuditPosted
           body == req[r].body
           id == lastId + 1
       IN  IF InsertOk(body) /\ req[r].reply
           THEN /\ audits' = (id :> NewRow(body, req[r].status, posted)) @@ audits
                /\ lastId' = id
                /\ Respond(r, "audit",
                           [code |-> 200, success |-> TRUE, id |-> id,
                            status |-> req[r].status,
                            snipeit_audit_posted |-> (posted = 1)])
           ELSE /\ Respond(r, "audit", Err(500, "Failed to save audit"))
                /\ UNCHANGED <<audits, lastId>>
    /\ UNCHANGED <<assetCache, clock, nreq>>

\* after the await: snipeitAuditPosted, the INSERT and the response
PostAuditResume(r) ==
    /\ req[r].kind = "audit" /\ req[r].pc = "resume_post"
    /\ LET posted == IF req[r].reply THEN 1 ELSE req[r].snipeitAuditPosted
           body == req[r].body
           id == lastId + 1
       IN  IF InsertOk(body)
           THEN /\ audits' = (id :> NewRow(body, req[r].status, posted)) @@ audits
                /\ lastId' = id
                /\ Respond(r, "audit",
                           [code |-> 200, success |-> TRUE, id |-> id,
                            status |-> req[r].status,
                            snipeit_audit_posted |-> (posted = 1)])
           ELSE /\ Respond(r, "audit", Err(500, "Failed to save audit"))
                /\ UNCHANGED <<audits, lastId>>
    /\ UNCHANGED <<assetCache, clock, nreq>>

-----------------------------------------------------------------------------
(* POST /api/audits/resolve                                                *)

ItemError(id, text) == [id |-> id, error |-> text]

\* a loop that does not look at the status of the record
RECURSIVE ResolveLoopAnyStatus(_, _, _, _, _)
ResolveLoopAnyStatus(rows, ids, i, results, errors) ==
    IF i > Len(ids)
    THEN [pc |-> "done", idx |-> i, results |-> results, errors |-> errors]
    ELSE LET auditId == ids[i] IN
         IF auditId \notin DOMAIN rows
         THEN ResolveLoopAnyStatus(rows, ids, i + 1, results,
                          Append(errors, ItemError(auditId, "Audit not found")))
         ELSE IF Truthy(rows[auditId].resolved_at)
         THEN ResolveLoopAnyStatus(rows, ids, i + 1, results,
                          Append(errors, ItemError(auditId, "Already resolved")))
         ELSE [pc |-> "await_patch", idx |-> i, results |-> results, errors |-> errors]

\* the for loop from index i up to its next await (a patch is issued) or
\* its end (the response is sent); rows is the table as the loop reads it
RECURSIVE ResolveLoop(_, _, _, _, _)
ResolveLoop(rows, ids, i, results, errors) ==
    IF i > Len(ids)
    THEN [pc |-> "done", idx |-> i, results |-> results, errors |-> errors]
    ELSE LET auditId == ids[i] IN
         IF auditId \notin DOMAIN rows
         THEN ResolveLoop(rows, ids, i + 1, results,
                          Append(errors, ItemError(auditId, "Audit not found")))
         ELSE IF rows[auditId].status # "mismatch"
         THEN ResolveLoop(rows, ids, i + 1, results,
                          Append(errors, ItemError(auditId, "Audit is not a mismatch")))
         ELSE IF Truthy(rows[auditId].resolved_at)
         THEN ResolveLoop(rows, ids, i + 1, results,
                          Append(errors, ItemError(auditId, "Already resolved")))
         ELSE [pc |-> "await_patch", idx |-> i, results |-> results, errors |-> errors]

ResolveResponse(results, errors) ==
    [code |-> 200, success |-> (Len(errors) = 0),
     resolved |-> Len(results), failed |-> Len(errors),
     results |-> results, errors |-> errors]

\* axios.patch(.../hardware/<audit.asset_id>, { rtd_location_id: audit.actual_location_id })
PatchOf(audit) ==
    [asset_id |-> audit.asset_id, rtd_location_id |-> audit.actual_location_id]

\* the slot after the loop ran from index i: suspended on a patch, or done
ResolveContinue(r, in, rows, i, results, errors) ==
    LET s == ResolveLoop(rows, in.audit_ids, i, results, errors) IN
    IF s.pc = "done"
    THEN Respond(r, "resolve", ResolveResponse(s.results, s.errors))
    ELSE /\ req' = [req EXCEPT ![r] =
                      [kind |-> "resolve", pc |-> "await_patch", reply |-> FALSE,
                       in |-> in, idx |-> s.idx,
                       audit |-> rows[in.audit_ids[s.idx]],
                       patch |-> PatchOf(rows[in.audit_ids[s.idx]]),
                       results |-> s.results, errors |-> s.errors]]
         /\ UNCHANGED sent

Batches == UNION {[1..n -> AuditIds] : n \in 0..MaxBatch}

ResolveInputs ==
    [isArray : {TRUE}, audit_ids : Batches, resolved_by : {Undef, Str(5)}]
    \cup {[isArray |-> FALSE, audit_ids |-> <<>>, resolved_by |-> Undef]}

\* the checks, then the loop up to its first await
ResolveRequest(r, password, token, in) ==
    /\ Accept(r)
    /\ IF password # ADMIN_PASSWORD
       THEN Respond(r, "resolve", Err(401, "Admin password required"))
       ELSE IF token = ""
       THEN Respond(r, "resolve", Err(401, "Snipe-IT API token required"))
       ELSE IF ~in.isArray \/ Len(in.audit_ids) = 0
       THEN Respond(r, "resolve", Err(400, "audit_ids array is required"))
       ELSE ResolveContinue(r, in, audits, 1, <<>>, <<>>)
    /\ UNCHANGED <<audits, lastId, assetCache, clock>>

\* UPDATE audits SET status = 'resolved', resolved_at = ?, resolved_by = ? WHERE id = ?
UpdateResolved(rows, auditId, now, by) ==
    IF auditId \in DOMAIN rows
    THEN [rows EXCEPT ![auditId].status = "resolved",
                      ![auditId].resolved_at = now,
                      ![auditId].resolved_by = by]
    ELSE rows

\* a handler whose catch is outside the loop: a failed patch ends the batch
ResolveResumeAborts(r) ==
    /\ req[r].kind = "resolve" /\ req[r].pc = "resume_patch"
    /\ LET auditId == req[r].in.audit_ids[req[r].idx]
           rows == UpdateResolved(audits, auditId, IsoString(clock),
                                  OrElse(req[r].in.resolved_by, Admin))
       IN  IF req[r].reply
           THEN /\ audits' = rows
                /\ ResolveContinue(r, req[r].in, rows, req[r].idx + 1,
                      Append(req[r].results, [id |-> auditId, success |-> TRUE]),
                      req[r].errors)
           ELSE /\ audits' = audits
                /\ Respond(r, "resolve", Err(500, "Request failed"))
    /\ UNCHANGED <<lastId, assetCache, clock, nreq>>

\* a handler that marks the record resolved whatever the patch answered
ResolveResumeUnconditional(r) ==
    /\ req[r].kind = "resolve" /\ req[r].pc = "resume_patch"
    /\ LET auditId == req[r].in.audit_ids[req[r].idx]
           rows == UpdateResolved(audits, auditId, IsoString(clock),
                                  OrElse(req[r].in.resolved_by, Admin))
       IN  /\ audits' = rows
           /\ ResolveContinue(r, req[r].in, rows, req[r].idx + 1,
                 Append(req[r].results, [id |-> auditId, success |-> TRUE]),
                 req[r].errors)
    /\ UNCHANGED <<lastId, assetCache, clock, nreq>>

\* after the await of axios.patch: the UPDATE or the catch, then the loop on
ResolveResume(r) ==
    /\ req[r].kind = "resolve" /\ req[r].pc = "resume_patch"
    /\ LET auditId == req[r].in.audit_ids[req[r].idx]
           rows == IF req[r].reply
                   THEN UpdateResolved(audits, auditId, IsoString(clock),
                                       OrElse(req[r].in.resolved_by, Admin))
                   ELSE audits
           results == IF req[r].reply
                      THEN Append(req[r].results, [id |-> auditId, success |-> TRUE])
                      ELSE req[r].results
           errors == IF req[r].reply
                     THEN req[r].errors
                     ELSE Append(req[r].errors, ItemError(auditId, "Request failed"))
       IN  /\ audits' = rows
           /\ ResolveContinue(r, req[r].in, rows, req[r].idx + 1, results, errors)
    /\ UNCHANGED <<lastId, assetCache, clock, nreq>>

-----------------------------------------------------------------------------
(* DELETE /api/audits/:id                                                  *)

DeleteAudit(r, password, id) ==
    /\ Accept(r)
    /\ IF password # ADMIN_PASSWORD
       THEN /\ Respond(r, "delete", Err(401, "Admin password required"))
            /\ UNCHANGED audits
       ELSE /\ audits' = [i \in DOMAIN audits \ {id} |-> audits[i]]
            /\ Respond(r, "delete", [code |-> 200, success |-> TRUE])
    /\ UNCHANGED <<lastId, assetCache, clock>>

-----------------------------------------------------------------------------
(* GET /api/snipeit/assets: the snapshot cache, the paged fetch and the    *)
(* classification.  Time is counted in ms from January 1, 00:00 of the     *)
(* current year, and the clock stays within that year.  An array of assets *)
(* is kept as a sequence of runs: [asset |-> a, n |-> k] stands for k      *)
(* consecutive elements equal to a.                                        *)

ttl == 600000
limit == 500
currentYearStart == 0

\* the date strings new Date(s) can parse, with the time it gives them; any
\* other string is an invalid date
DateTable ==
    [s \in {"dec-31 of last year", "jan-01 00:00:00.500", "jan-01 00:06:40"} |->
        CASE s = "dec-31 of last year" -> 0 - 86400000
          [] s = "jan-01 00:00:00.500" -> 500
          [] s = "jan-01 00:06:40" -> 400000]

\* a date field of a raw asset: undefined, null, a string, or an object
\* { datetime, formatted }; a member that is "" is absent or empty
NoDate(t) == [type |-> t, str |-> "", datetime |-> "", formatted |-> ""]
DateStr(s) == [type |-> "string", str |-> s, datetime |-> "", formatted |-> ""]
DateObj(d, f) == [type |-> "object", str |-> "", datetime |-> d, formatted |-> f]

\* !dateField
FalsyDate(dateField) ==
    \/ dateField.type \in {"undefined", "null"}
    \/ dateField.type = "string" /\ dateField.str = ""

NullStr == [type |-> "null", str |-> ""]
SomeStr(s) == [type |-> "string", str |-> s]

extractDate(dateField) ==
    IF FalsyDate(dateField) THEN NullStr
    ELSE IF dateField.type = "string" THEN SomeStr(dateField.str)
    ELSE IF dateField.type = "object" /\ dateField.datetime # ""
    THEN SomeStr(dateField.datetime)
    ELSE IF dateField.type = "object" /\ dateField.formatted # ""
    THEN SomeStr(dateField.formatted)
    ELSE NullStr

NoTime == [valid |-> FALSE, time |-> 0]

\* null, or the Date whose getTime() is time
parseDate(dateField) ==
    LET dateStr == extractDate(dateField) IN
    IF dateStr.type = "null" \/ dateStr.str = "" THEN NoTime
    ELSE IF dateStr.str \in DOMAIN DateTable
    THEN [valid |-> TRUE, time |-> DateTable[dateStr.str]]
    ELSE NoTime

\* one element of processedAssets, built at time t; the descriptive fields
\* (tag, name, model, location, SAP number, ...) are copied and left out
ProcessAsset(asset, t) ==
    LET lastAuditDate == parseDate(asset.last_audit_date)
        nextAuditDate == parseDate(asset.next_audit_date)
    IN  [id |-> asset.id,
         last_audit_date |-> extractDate(asset.last_audit_date),
         next_audit_date |-> extractDate(asset.next_audit_date),
         never_audited |-> FalsyDate(asset.last_audit_date),
         not_audited_this_year |-> IF lastAuditDate.valid
                                   THEN lastAuditDate.time < currentYearStart
                                   ELSE TRUE,
         audit_overdue |-> IF nextAuditDate.valid
                           THEN nextAuditDate.time < t
                           ELSE FALSE]

Rows(a, k) == [asset |-> a, n |-> k]

\* array.length
RECURSIVE Length(_)
Length(array) ==
    IF array = <<>> THEN 0 ELSE Head(array).n + Length(Tail(array))

\* the filters of the three buckets, applied to the elements of a run
neverAudited(run) == run.asset.never_audited

\* a filter that looks at the flag alone
notAuditedThisYearFlag(run) == run.asset.not_audited_this_year

notAuditedThisYear(run) ==
    ~run.asset.never_audited /\ run.asset.not_audited_this_year

auditOverdue(run) == run.asset.audit_overdue

\* the object `result` built from allAssets at time t
Snapshot(allAssets, t) ==
    LET processedAssets == [k \in 1..Len(allAssets) |->
                               Rows(ProcessAsset(allAssets[k].asset, t), allAssets[k].n)]
    IN  [type |-> "object",
         total |-> Length(allAssets),
         never_audited |-> SelectSeq(processedAssets, neverAudited),
         not_audited_this_year |-> SelectSeq(processedAssets, notAuditedThisYear),
         audit_overdue |-> SelectSeq(processedAssets, auditOverdue),
         all_assets |-> processedAssets]

\* a cache check with half the lifetime
CacheFreshHalf(forceRefresh, now) ==
    /\ ~forceRefresh
    /\ Truthy(assetCache.data)
    /\ Truthy(assetCache.timestamp)
    /\ (now - assetCache.timestamp.val) < ttl \div 2

\* a cache check that still serves a snapshot aged exactly ttl
CacheFreshInclusive(forceRefresh, now) ==
    /\ ~forceRefresh
    /\ Truthy(assetCache.data)
    /\ Truthy(assetCache.timestamp)
    /\ (now - assetCache.timestamp.val) <= ttl

\* !forceRefresh && assetCache.data && assetCache.timestamp && ... < assetCache.ttl
CacheFresh(forceRefresh, now) ==
    /\ ~forceRefresh
    /\ Truthy(assetCache.data)
    /\ Truthy(assetCache.timestamp)
    /\ (now - assetCache.timestamp.val) < ttl

\* Math.round(x / d)
RoundDiv(x, d) == (2 * x + d) \div (2 * d)

\* { ...assetCache.data, cached: true, cache_age: ... }
CachedResponse(now) ==
    [code |-> 200, cached |-> TRUE,
     cache_age |-> RoundDiv(now - assetCache.timestamp.val, 1000)]
    @@ assetCache.data

\* { ...result, cached: false, cache_age: 0 }
FreshResponse(result) ==
    [code |-> 200, cached |-> FALSE, cache_age |-> 0] @@ result

\* req.query.refresh; "" is an absent parameter
RefreshParams == {"", "true", "1"}

\* the checks and the cache check, up to the first page request
AssetsRequest(r, password, token, refresh) ==
    LET forceRefresh == (refresh = "true")
        now == clock
    IN  /\ Accept(r)
        /\ IF password # ADMIN_PASSWORD
           THEN Respond(r, "assets", Err(401, "Admin password required"))
           ELSE IF token = ""
           THEN Respond(r, "assets", Err(401, "Snipe-IT API token required"))
           ELSE IF CacheFresh(forceRefresh, now)
           THEN Respond(r, "assets", CachedResponse(now))
           ELSE /\ req' = [req EXCEPT ![r] =
                            [kind |-> "assets", pc |-> "await_page",
                             forceRefresh |-> forceRefresh, now |-> now,
                             allAssets |-> <<>>, offset |-> 0]]
                /\ UNCHANGED sent
        /\ UNCHANGED <<audits, lastId, assetCache, clock>>

\* allAssets.length >= response.data.total
GeTotal(n, total) ==
    CASE total.type = "number" -> n >= total.val
      [] total.type = "null" -> n >= 0
      [] OTHER -> FALSE

\* assets.length < limit || allAssets.length >= response.data.total
LastPage(reply, fetched) ==
    LET assets == IF reply.hasRows THEN reply.rows ELSE <<>> IN
    \/ Length(assets) < limit
    \/ GeTotal(fetched + Length(assets), reply.total)

\* sample raw assets: never audited; audited last year with an audit due
NeverSeen == [id |-> 1, last_audit_date |-> NoDate("null"),
              next_audit_date |-> NoDate("null")]
SeenLastYear == [id |-> 2, last_audit_date |-> DateStr("dec-31 of last year"),
                 next_audit_date |-> DateObj("jan-01 00:06:40", "")]

FullPage == <<Rows(NeverSeen, limit)>>

PageFailure(status) ==
    [ok |-> FALSE, status |-> status, hasRows |-> FALSE, rows |-> <<>>, total |-> Undef]

PageOf(rows, total) ==
    [ok |-> TRUE, status |-> Num(200), hasRows |-> TRUE, rows |-> rows, total |-> total]

\* what GET /api/v1/hardware can answer to a page request: a short page, a
\* full page that is the last or not, an answer without rows, a failure
\* without or with a response
PageReplies ==
    {PageOf(<<Rows(SeenLastYear, 1)>>, Num(1)),
     PageOf(FullPage, Num(limit)),
     PageOf(FullPage, Num(2 * limit)),
     [ok |-> TRUE, status |-> Num(200), hasRows |-> FALSE, rows |-> <<>>,
      total |-> Undef],
     PageFailure(Undef),
     PageFailure(Num(503))}

\* the remote answers the page request of slot r; it serves at most MaxPages
\* pages of one fetch
RemotePage(r, reply) ==
    /\ req[r].pc = "await_page"
    /\ \/ ~reply.ok
       \/ LastPage(reply, Length(req[r].allAssets))
       \/ req[r].offset \div limit + 1 < MaxPages
    /\ req' = [req EXCEPT ![r] = [kind |-> "assets", pc |-> "resume_page",
                                  forceRefresh |-> req[r].forceRefresh,
                                  now |-> req[r].now,
                                  allAssets |-> req[r].allAssets,
                                  offset |-> req[r].offset,
                                  reply |-> reply]]
    /\ UNCHANGED <<audits, lastId, assetCache, clock, sent, nreq>>

\* a catch that also empties the slot
AssetsResumeClears(r) ==
    /\ req[r].kind = "assets" /\ req[r].pc = "resume_page"
    /\ LET reply == req[r].reply
           assets == IF reply.hasRows THEN reply.rows ELSE <<>>
           allAssets == req[r].allAssets \o assets
       IN  IF ~reply.ok
           THEN /\ Respond(r, "assets",
                           Err(OrElse(reply.status, Num(500)).val,
                               "Failed to fetch assets from Snipe-IT"))
                /\ assetCache' = [data |-> JNull, timestamp |-> JNull]
           ELSE IF LastPage(reply, Length(req[r].allAssets))
           THEN LET result == Snapshot(allAssets, clock) IN
                /\ assetCache' = [data |-> result, timestamp |-> Num(req[r].now)]
                /\ Respond(r, "assets", FreshResponse(result))
           ELSE /\ req' = [req EXCEPT ![r] =
                            [kind |-> "assets", pc |-> "await_page",
                             forceRefresh |-> req[r].forceRefresh,
                             now |-> req[r].now,
                             allAssets |-> allAssets,
                             offset |-> req[r].offset + limit]]
                /\ UNCHANGED <<assetCache, sent>>
    /\ UNCHANGED <<audits, lastId, clock, nreq>>

\* a store that keeps the timestamp of a snapshot already in the slot
AssetsResumeKeepsTimestamp(r) ==
    /\ req[r].kind = "assets" /\ req[r].pc = "resume_page"
    /\ LET reply == req[r].reply
           assets == IF reply.hasRows THEN reply.rows ELSE <<>>
           allAssets == req[r].allAssets \o assets
       IN  IF ~reply.ok
           THEN /\ Respond(r, "assets",
                           Err(OrElse(reply.status, Num(500)).val,
                               "Failed to fetch assets from Snipe-IT"))
                /\ UNCHANGED assetCache
           ELSE IF LastPage(reply, Length(req[r].allAssets))
           THEN LET result == Snapshot(allAssets, clock) IN
                /\ assetCache' = [data |-> result,
                                  timestamp |-> IF assetCache.timestamp = JNull
                                                THEN Num(req[r].now)
                                                ELSE assetCache.timestamp]
                /\ Respond(r, "assets", FreshResponse(result))
           ELSE /\ req' = [req EXCEPT ![r] =
                            [kind |-> "assets", pc |-> "await_page",
                             forceRefresh |-> req[r].forceRefresh,
                             now |-> req[r].now,
                             allAssets |-> allAssets,
                             offset |-> req[r].offset + limit]]
                /\ UNCHANGED <<assetCache, sent>>
    /\ UNCHANGED <<audits, lastId, clock, nreq>>

\* after the await of a page: the catch, or the loop test and then the next
\* page request or classification, cache store and response
AssetsResume(r) ==
    /\ req[r].kind = "assets" /\ req[r].pc = "resume_page"
    /\ LET reply == req[r].reply
           assets == IF reply.hasRows THEN reply.rows ELSE <<>>
           allAssets == req[r].allAssets \o assets
       IN  IF ~reply.ok
           THEN /\ Respond(r, "assets",
                           Err(OrElse(reply.status, Num(500)).val,
                               "Failed to fetch assets from Snipe-IT"))
                /\ UNCHANGED assetCache
           ELSE IF LastPage(reply, Length(req[r].allAssets))
           THEN LET result == Snapshot(allAssets, clock) IN
                /\ assetCache' = [data |-> result, timestamp |-> Num(req[r].now)]
                /\ Respond(r, "assets", FreshResponse(result))
           ELSE /\ req' = [req EXCEPT ![r] =
                            [kind |-> "assets", pc |-> "await_page",
                             forceRefresh |-> req[r].forceRefresh,
                             now |-> req[r].now,
                             allAssets |-> allAssets,
                             offset |-> req[r].offset + limit]]
                /\ UNCHANGED <<assetCache, sent>>
    /\ UNCHANGED <<audits, lastId, clock, nreq>>

-----------------------------------------------------------------------------
(* Strings of the lookup handlers: a string is the sequence of its         *)
(* characters; a member that is <<>> is absent, null or empty.             *)

Whitespace == {" ", "\t"}

RECURSIVE TrimStart(_)
TrimStart(s) ==
    IF s # <<>> /\ Head(s) \in Whitespace THEN TrimStart(Tail(s)) ELSE s

RECURSIVE TrimEnd(_)
TrimEnd(s) ==
    IF s # <<>> /\ s[Len(s)] \in Whitespace
    THEN TrimEnd(SubSeq(s, 1, Len(s) - 1))
    ELSE s

\* s.trim()
Trim(s) == TrimEnd(TrimStart(s))

UpperCase == <<"A", "B", "C", "D", "E", "F", "G", "H", "I", "J", "K", "L", "M",
               "N", "O", "P", "Q", "R", "S", "T", "U", "V", "W", "X", "Y", "Z">>
LowerCase == <<"a", "b", "c", "d", "e", "f", "g", "h", "i", "j", "k", "l", "m",
               "n", "o", "p", "q", "r", "s", "t", "u", "v", "w", "x", "y", "z">>

LowerChar(c) ==
    IF \E i \in DOMAIN UpperCase : UpperCase[i] = c
    THEN LowerCase[CHOOSE i \in DOMAIN UpperCase : UpperCase[i] = c]
    ELSE c

\* s.toLowerCase()
toLowerCase(s) == [k \in 1..Len(s) |-> LowerChar(s[k])]

\* s.includes(t)
includes(s, t) ==
    \E i \in 0..(Len(s) - Len(t)) : SubSeq(s, i + 1, i + Len(t)) = t

-----------------------------------------------------------------------------
(* GET /api/assets/search                                                  *)

\* req.query.query: absent, or a string
NoQuery == [present |-> FALSE, chars |-> <<>>]
Query(s) == [present |-> TRUE, chars |-> s]

Queries ==
    {NoQuery, Query(<<>>), Query(<<" ">>), Query(<<"\t", " ">>),
     Query(<<"L", "1">>), Query(<<" ", "s", "9", " ">>)}

\* a query the check lets through only when it is not trimmed
QueryMissingUntrimmed(query) ==
    ~query.present \/ query.chars = <<>>

\* !query || query.trim() === ''
QueryMissing(query) ==
    \/ ~query.present
    \/ query.chars = <<>>
    \/ Trim(query.chars) = <<>>

SapNumberId == <<"S", "A", "P", " ", "A", "s", "s", "e", "t", " ",
                 "N", "u", "m", "b", "e", "r", " ", "/", " ", "I", "D">>
SapNumber == <<"S", "A", "P", " ", "A", "s", "s", "e", "t", " ",
               "N", "u", "m", "b", "e", "r">>
sap == <<"s", "a", "p">>

\* one entry of asset.custom_fields: its key, and the field and value members
Field(name, field, value) == [name |-> name, field |-> field, value |-> value]

\* a raw asset as the lookups see it
Asset(id, tag, hasFields, fields) ==
    [id |-> id, asset_tag |-> tag, hasFields |-> hasFields, custom_fields |-> fields]

NoAsset == Asset(Undef, <<>>, FALSE, <<>>)
Laptop == Asset(Num(7), <<"l", "1">>, FALSE, <<>>)
SapNamed == Asset(Num(8), <<"l", "2">>, TRUE,
                  <<Field(SapNumber, <<>>, <<"S", "9">>)>>)
SapTyped == Asset(Num(9), <<>>, TRUE,
                  <<Field(<<"n", "o">>, <<"_", "S", "a", "p">>, <<"s", "9">>)>>)
Plain == Asset(Num(10), <<"l", "3">>, TRUE,
               <<Field(<<"n", "o">>, <<>>, <<"s", "9">>)>>)

\* a.asset_tag && a.asset_tag.toLowerCase() === searchTerm.toLowerCase()
TagMatches(a, searchTerm) ==
    /\ a.asset_tag # <<>>
    /\ toLowerCase(a.asset_tag) = toLowerCase(searchTerm)

\* the body of the loop over the assets: a SAP number of the asset matches
SapMatches(asset, searchTerm) ==
    /\ asset.hasFields
    /\ LET cf == asset.custom_fields
           Named(n) == {k \in DOMAIN cf : cf[k].name = n}
           sapField == IF Named(SapNumberId) # {}
                       THEN Named(SapNumberId)
                       ELSE Named(SapNumber)
       IN  \/ \E k \in sapField :
                /\ cf[k].value # <<>>
                /\ toLowerCase(cf[k].value) = toLowerCase(searchTerm)
           \/ \E k \in DOMAIN cf :
                /\ \/ includes(toLowerCase(cf[k].name), sap)
                   \/ cf[k].field # <<>> /\ includes(toLowerCase(cf[k].field), sap)
                /\ cf[k].value # <<>>
                /\ toLowerCase(cf[k].value) = toLowerCase(searchTerm)

\* the lowest of a set of indices
Lowest(indices) == CHOOSE k \in indices : \A j \in indices : k <= j

\* the response to a search whose text search answered with assets: the
\* first asset that matches by tag, else the first that matches by SAP
\* number, else 404
SearchOutcome(assets, searchTerm) ==
    LET byTag == {k \in DOMAIN assets : TagMatches(assets[k], searchTerm)}
        bySap == {k \in DOMAIN assets : SapMatches(assets[k], searchTerm)}
    IN  IF byTag # {}
        THEN [code |-> 200, asset |-> assets[Lowest(byTag)]]
        ELSE IF bySap # {}
        THEN [code |-> 200, asset |-> assets[Lowest(bySap)]]
        ELSE Err(404, "Asset not found. Please check the asset tag or SAP number.")

\* the checks, up to the request of /hardware/bytag/<searchTerm>
SearchRequest(r, token, query) ==
    /\ Accept(r)
    /\ IF token = ""
       THEN Respond(r, "search", Err(401, "API token required"))
       ELSE IF QueryMissing(query)
       THEN Respond(r, "search", Err(400, "Search query required"))
       ELSE /\ req' = [req EXCEPT ![r] =
                        [kind |-> "search", pc |-> "await_tag",
                         searchTerm |-> Trim(query.chars)]]
            /\ UNCHANGED sent
    /\ UNCHANGED <<audits, lastId, assetCache, clock>>

LookupFailure(status) == [ok |-> FALSE, status |-> status, data |-> NoAsset, rows |-> <<>>]

\* /hardware/bytag answers with an asset, with a body without id, or fails
TagReplies ==
    {[ok |-> TRUE, status |-> Num(200), data |-> Laptop, rows |-> <<>>],
     [ok |-> TRUE, status |-> Num(200), data |-> NoAsset, rows |-> <<>>],
     LookupFailure(Num(404))}

\* /hardware?search= answers with rows (none when rows is absent), or fails
SearchReplies ==
    {[ok |-> TRUE, status |-> Num(200), data |-> NoAsset, rows |-> rows] :
        rows \in {<<>>, <<Plain, Laptop>>, <<Plain, SapNamed>>, <<SapTyped>>}}
    \cup {LookupFailure(Undef), LookupFailure(Num(400))}

\* the remote answers the lookup that slot r awaits
RemoteLookup(r, reply) ==
    /\ \/ req[r].pc = "await_tag" /\ reply \in TagReplies
       \/ req[r].pc = "await_search" /\ reply \in SearchReplies
    /\ req' = [req EXCEPT ![r] =
                 [kind |-> "search",
                  pc |-> IF req[r].pc = "await_tag" THEN "resume_tag" ELSE "resume_search",
                  searchTerm |-> req[r].searchTerm,
                  reply |-> reply]]
    /\ UNCHANGED <<audits, lastId, assetCache, clock, sent, nreq>>

\* a handler that goes on to the text search whatever the tag lookup gave
SearchTagResumeBoth(r) ==
    /\ req[r].kind = "search" /\ req[r].pc = "resume_tag"
    /\ req' = [req EXCEPT ![r] =
                 [kind |-> "search", pc |-> "await_search",
                  searchTerm |-> req[r].searchTerm]]
    /\ UNCHANGED <<audits, lastId, assetCache, clock, nreq, sent>>

\* after the tag lookup: the asset is returned, or the text search is requested
SearchTagResume(r) ==
    /\ req[r].kind = "search" /\ req[r].pc = "resume_tag"
    /\ IF req[r].reply.ok /\ Truthy(req[r].reply.data.id)
       THEN Respond(r, "search", [code |-> 200, asset |-> req[r].reply.data])
       ELSE /\ req' = [req EXCEPT ![r] =
                        [kind |-> "search", pc |-> "await_search",
                         searchTerm |-> req[r].searchTerm]]
            /\ UNCHANGED sent
    /\ UNCHANGED <<audits, lastId, assetCache, clock, nreq>>

\* after the text search: the match by tag, the match by SAP number, 404,
\* or the error of the remote
SearchResume(r) ==
    /\ req[r].kind = "search" /\ req[r].pc = "resume_search"
    /\ IF req[r].reply.ok
       THEN Respond(r, "search", SearchOutcome(req[r].reply.rows, req[r].searchTerm))
       ELSE Respond(r, "search",
                    Err(OrElse(req[r].reply.status, Num(500)).val,
                        "Failed to search asset"))
    /\ UNCHANGED <<audits, lastId, assetCache, clock, nreq>>

-----------------------------------------------------------------------------
(* PATCH /api/assets/:id/location                                          *)

LocationIds == {Undef, JNull, Str(0), Num(0), Num(2), Str(2)}

UpdateLocationRequest(r, password, token, location_id) ==
    /\ Accept(r)
    /\ IF password # ADMIN_PASSWORD
       THEN Respond(r, "location", Err(401, "Admin password required"))
       ELSE IF token = ""
       THEN Respond(r, "location", Err(401, "Snipe-IT API token required"))
       ELSE IF ~Truthy(location_id)
       THEN Respond(r, "location", Err(400, "location_id is required"))
       ELSE /\ req' = [req EXCEPT ![r] =
                        [kind |-> "location", pc |-> "await_location",
                         location_id |-> location_id]]
            /\ UNCHANGED sent
    /\ UNCHANGED <<audits, lastId, assetCache, clock>>

\* the remote answers the patch, and the handler answers in turn
UpdateLocationResume(r, reply) ==
    /\ req[r].kind = "location" /\ req[r].pc = "await_location"
    /\ IF reply.ok
       THEN Respond(r, "location", [code |-> 200, success |-> TRUE])
       ELSE Respond(r, "location",
                    Err(OrElse(reply.status, Num(500)).val,
                        "Failed to update asset location"))
    /\ UNCHANGED <<audits, lastId, assetCache, clock, nreq>>

LocationReplies ==
    {[ok |-> TRUE, status |-> Num(200)],
     [ok |-> FALSE, status |-> Undef],
     [ok |-> FALSE, status |-> Num(400)]}

-----------------------------------------------------------------------------

\* the audit handlers, run in the slots R on submissions drawn from bodies
AuditOps(R, bodies) ==
    \/ \E r \in R, token \in Tokens, body \in bodies : PostAuditRequest(r, token, body)
    \/ \E r \in R, ok \in BOOLEAN : RemoteReplies(r, ok)
    \/ \E r \in R : PostAuditResume(r)
    \/ \E r \in R, password \in Passwords, token \in Tokens, in \in ResolveInputs :
          ResolveRequest(r, password, token, in)
    \/ \E r \in R : ResolveResume(r)
    \/ \E r \in R, password \in Passwords, id \in AuditIds : DeleteAudit(r, password, id)

\* one request at a time
NextSerial == AuditOps({1}, ScanBodies)

SpecSerial == Init /\ [][NextSerial]_vars

\* requests overlap at their awaits
NextAudit == AuditOps(Req, ScanBodies)

SpecAudit == Init /\ [][NextAudit]_vars

NextSubmit ==
    \/ \E r \in Req, token \in Tokens, body \in AuditBodies : PostAuditRequest(r, token, body)
    \/ \E r \in Req, ok \in BOOLEAN : RemoteReplies(r, ok)
    \/ \E r \in Req : PostAuditResume(r)

SpecSubmit == Init /\ [][NextSubmit]_vars

\* snapshot requests overlapping at their page requests, while time passes
NextCache ==
    \/ \E r \in Req, password \in Passwords, token \in Tokens, refresh \in RefreshParams :
          AssetsRequest(r, password, token, refresh)
    \/ \E r \in Req, reply \in PageReplies : RemotePage(r, reply)
    \/ \E r \in Req : AssetsResume(r)
    \/ Tick

SpecCache == Init /\ [][NextCache]_vars

\* every handler, one request at a time
NextRequests ==
    \/ \E token \in Tokens, body \in ScanBodies : PostAuditRequest(1, token, body)
    \/ \E ok \in BOOLEAN : RemoteReplies(1, ok)
    \/ PostAuditResume(1)
    \/ \E password \in Passwords, token \in Tokens, in \in ResolveInputs :
          ResolveRequest(1, password, token, in)
    \/ ResolveResume(1)
    \/ \E password \in Passwords, token \in Tokens, refresh \in RefreshParams :
          AssetsRequest(1, password, token, refresh)
    \/ \E reply \in PageReplies : RemotePage(1, reply)
    \/ AssetsResume(1)
    \/ \E token \in Tokens, query \in Queries : SearchRequest(1, token, query)
    \/ \E reply \in TagReplies \cup SearchReplies : RemoteLookup(1, reply)
    \/ SearchTagResume(1)
    \/ SearchResume(1)
    \/ \E password \in Passwords, token \in Tokens, location_id \in LocationIds :
          UpdateLocationRequest(1, password, token, location_id)
    \/ \E reply \in LocationReplies : UpdateLocationResume(1, reply)

SpecRequests == Init /\ [][NextRequests]_vars

\* the classification alone, applied to every list of raw assets of at most
\* MaxAssets runs, at a time before and a time after the audit date that is
\* due this year
LastAuditDates ==
    {NoDate("undefined"), NoDate("null"), DateStr(""), DateStr("n/a"),
     DateStr("dec-31 of last year"), DateStr("jan-01 00:00:00.500"),
     DateObj("", ""), DateObj("dec-31 of last year", ""),
     DateObj("", "jan-01 00:00:00.500")}

NextAuditDates ==
    {NoDate("null"), DateStr("jan-01 00:06:40"), DateObj("dec-31 of last year", "")}

RawAssets ==
    [id : {1}, last_audit_date : LastAuditDates, next_audit_date : NextAuditDates]

AssetLists ==
    UNION {[1..n -> {Rows(a, k) : a \in RawAssets, k \in {1, 2}}] : n \in 0..MaxAssets}

InitClassify ==
    /\ audits = <<>>
    /\ lastId = 0
    /\ assetCache = [data |-> JNull, timestamp |-> JNull]
    /\ clock \in {StartTime, StartTime + 2 * TickStep}
    /\ \E allAssets \in AssetLists :
          req = [r \in Req |-> IF r = 1
                               THEN [kind |-> "classify", pc |-> "input",
                                     allAssets |-> allAssets]
                               ELSE Idle]
    /\ sent = [slot |-> 0, kind |-> "none"]
    /\ nreq = 0

Classify ==
    /\ req[1].pc = "input"
    /\ Respond(1, "classify", FreshResponse(Snapshot(req[1].allAssets, clock)))
    /\ UNCHANGED <<audits, lastId, assetCache, clock, nreq>>

SpecClassify == InitClassify /\ [][Classify]_vars

\* searches overlapping at their lookups
NextSearch ==
    \/ \E r \in Req, token \in Tokens, query \in Queries : SearchRequest(r, token, query)
    \/ \E r \in Req, reply \in TagReplies \cup SearchReplies : RemoteLookup(r, reply)
    \/ \E r \in Req : SearchTagResume(r)
    \/ \E r \in Req : SearchResume(r)

SpecSearch == Init /\ [][NextSearch]_vars

\* what a remote that keeps no count can answer: full pages without a total,
\* with a null total, or with a total that grows with the rows sent
UncountedReplies ==
    PageReplies
    \cup {PageOf(FullPage, Undef), PageOf(FullPage, JNull),
          PageOf(FullPage, Num((MaxPages + 1) * limit))}

\* one snapshot request at a time, against such a remote
NextPaging ==
    \/ \E password \in Passwords, token \in Tokens, refresh \in RefreshParams :
          AssetsRequest(1, password, token, refresh)
    \/ \E reply \in UncountedReplies : RemotePage(1, reply)
    \/ AssetsResume(1)

SpecPaging == Init /\ [][NextPaging]_vars

-----------------------------------------------------------------------------
(* Steps of a request, as the properties below speak of them.              *)

\* a request arrives and runs in slot r
Arrives(r) ==
    /\ nreq' = nreq + 1
    /\ req[r].pc = "idle"
    /\ \A q \in Req : q < r => req[q].pc # "idle"

\* the handler in slot r sends its response in this step
Responds(r) ==
    /\ req'[r].pc = "idle"
    /\ sent'.slot = r
    /\ Arrives(r) \/ req[r].pc # "idle"

\* the submit handler in slot r resumes after the remote audit post
SubmitResumes(r) ==
    /\ req[r].kind = "audit"
    /\ req[r].pc = "resume_post"
    /\ Responds(r)

\* the row a submission is stored as has its NOT NULL columns
Storable(body) ==
    /\ body.asset_id.type \notin {"null", "undefined"}
    /\ body.actual_location_id.type \notin {"null", "undefined"}

\* slot r's resumed submit inserted exactly one row and reported it
OneRecordInserted(r) ==
    LET id == lastId + 1 IN
    /\ id \notin DOMAIN audits
    /\ DOMAIN audits' = DOMAIN audits \cup {id}
    /\ \A i \in DOMAIN audits : audits'[i] = audits[i]
    /\ audits'[id].snipeit_audit_posted = (IF req[r].reply THEN 1 ELSE 0)
    /\ sent'.kind = "audit"
    /\ sent'.resp.code = 200
    /\ sent'.resp.id = id
    /\ sent'.resp.status = req[r].status
    /\ sent'.resp.status = audits'[id].status
    /\ sent'.resp.snipeit_audit_posted = req[r].reply

StatusFor(body) ==
    IF body.expected_location_id = body.actual_location_id
    THEN "match" ELSE "mismatch"

\* C6: the status of a submission is 'match' exactly when its expected and
\* actual location ids are the same value of the same type and 'mismatch'
\* otherwise (one side null or absent included); the status computed on
\* arrival is the one stored and returned, whatever the remote call answers.
C6_StatusIsStrictEquality ==
    /\ [](\A r \in Req : req[r].kind = "audit" =>
            req[r].status = StatusFor(req[r].body))
    /\ [][\A r \in Req : (SubmitResumes(r) /\ sent'.resp.code = 200) =>
            /\ sent'.resp.status = StatusFor(req[r].body)
            /\ audits'[sent'.resp.id].status = StatusFor(req[r].body)]_vars

\* a stored mismatch whose expected location was null
C6_Witness ==
    \E id \in DOMAIN audits :
       /\ audits[id].status = "mismatch"
       /\ audits[id].expected_location_id = JNull
       /\ sent.kind = "audit"
       /\ sent.resp.code = 200
       /\ sent.resp.id = id

-----------------------------------------------------------------------------
(* Resolving.                                                              *)

\* the audit id the resolve handler in slot r is patching
Patching(r) == req[r].in.audit_ids[req[r].idx]

\* the resolve handler in slot r has a location patch outstanding or answered
InPatch(r) ==
    /\ req[r].kind = "resolve"
    /\ req[r].pc \in {"await_patch", "resume_patch"}

\* the resolve handler in slot r resumes after its location patch
ResolveResumes(r) ==
    /\ req[r].kind = "resolve"
    /\ req[r].pc = "resume_patch"
    /\ req'[r] # req[r]

\* the itemized errors of slot r's resolve before and after this step
ErrorsBefore(r) == IF req[r].kind = "resolve" THEN req[r].errors ELSE <<>>

ErrorsAfter(r) ==
    IF req'[r].kind = "resolve" THEN req'[r].errors
    ELSE IF Responds(r) /\ sent'.kind = "resolve" /\ sent'.resp.code = 200
    THEN sent'.resp.errors
    ELSE ErrorsBefore(r)

ResultsAfter(r) ==
    IF req'[r].kind = "resolve" THEN req'[r].results
    ELSE IF Responds(r) /\ sent'.kind = "resolve" /\ sent'.resp.code = 200
    THEN sent'.resp.results
    ELSE <<>>

Ids(items) == {items[k].id : k \in 1..Len(items)}

\* C2: a stored record with status 'resolved' has a non-null resolved_at; a
\* record becomes resolved only from status 'mismatch'; a record with status
\* 'match' keeps it for as long as it is stored.
C2_ResolvedOnlyFromMismatch ==
    /\ [](\A id \in DOMAIN audits :
            /\ audits[id].status \in {"match", "mismatch", "resolved"}
            /\ audits[id].status = "resolved" => audits[id].resolved_at # JNull)
    /\ [][\A id \in DOMAIN audits \cap DOMAIN audits' :
            /\ (audits'[id].status = "resolved" /\ audits[id].status # "resolved")
                  => audits[id].status = "mismatch"
            /\ audits[id].status = "match" => audits'[id].status = "match"]_vars

\* a resolve request resolved a mismatch while a matching record is stored
C2_Witness ==
    /\ \E id \in DOMAIN audits :
          audits[id].status = "resolved" /\ audits[id].resolved_by = Admin
    /\ \E id \in DOMAIN audits : audits[id].status = "match"
    /\ sent.kind = "resolve"

\* C3: when a resolve request reaches an id whose record an earlier resolve
\* already resolved, it adds the per-id error 'Already resolved', issues no
\* patch for it and leaves the record as the first resolve wrote it.
C3_SecondResolveSaysAlreadyResolved ==
    [][\A r \in Req :
         \A k \in (Len(ErrorsBefore(r)) + 1)..Len(ErrorsAfter(r)) :
            LET id == ErrorsAfter(r)[k].id IN
            (id \in DOMAIN audits /\ audits[id].status = "resolved") =>
               /\ ErrorsAfter(r)[k].error = "Already resolved"
               /\ audits'[id] = audits[id]
               /\ ~(InPatch(r)' /\ Patching(r)' = id)]_vars

\* C4: while resolve requests for the same mismatch record overlap, the
\* location patch for the record is issued at most once (no request issues
\* one while another has one outstanding or answered), and the UPDATE that
\* writes resolved_at and resolved_by runs only on a record not yet resolved.
C4_NeverResolvedTwice ==
    [][\A r \in Req :
         /\ (InPatch(r)' /\ req'[r].pc = "await_patch" /\ req'[r] # req[r]) =>
               \A q \in Req \ {r} : ~(InPatch(q) /\ Patching(q) = Patching(r)')
         /\ (ResolveResumes(r) /\ req[r].reply /\ Patching(r) \in DOMAIN audits) =>
               audits[Patching(r)].resolved_at = JNull]_vars

\* the patch of slot r failed in this step: the loop went on, the record is
\* untouched and the failure is itemized
FailureIsolated(r) ==
    LET id == Patching(r) IN
    /\ audits' = audits
    /\ Len(ErrorsAfter(r)) > Len(req[r].errors)
    /\ ErrorsAfter(r)[Len(req[r].errors) + 1] = ItemError(id, "Request failed")
    /\ \/ Responds(r) /\ sent'.kind = "resolve" /\ sent'.resp.code = 200
       \/ InPatch(r)' /\ req'[r].idx > req[r].idx

\* the response of slot r's resolve accounts for every id of the batch
BatchAccounted(r) ==
    LET resp == sent'.resp IN
    /\ resp.resolved = Len(resp.results)
    /\ resp.failed = Len(resp.errors)
    /\ resp.resolved + resp.failed = Len(req[r].in.audit_ids)
    /\ \A id \in Ids(resp.results) :
          id \in DOMAIN audits' /\ audits'[id].status = "resolved"

\* the ids of the response whose patch failed
PatchFailed(resp) ==
    {resp.errors[k].id : k \in {j \in 1..Len(resp.errors) :
                                   resp.errors[j].error = "Request failed"}}

StillMismatch(id) ==
    /\ id \in DOMAIN audits'
    /\ audits'[id].status = "mismatch"
    /\ audits'[id].resolved_at = JNull

-----------------------------------------------------------------------------
(* The snapshot cache.                                                     *)

\* a get with the given refresh parameter that passes the credential checks
\* arrives and runs in slot r
AssetsArrives(r, refresh) == AssetsRequest(r, ADMIN_PASSWORD, "token", refresh)

\* the slot holds a snapshot
Populated == assetCache.data # JNull /\ assetCache.timestamp # JNull

\* the age of the stored snapshot when a get arrives now
Age == clock - assetCache.timestamp.val

\* the response carries every field of the snapshot, unchanged
Carries(resp, data) == \A f \in DOMAIN data : resp[f] = data[f]

\* no page request is issued in this step
NoPageRequest ==
    \A q \in Req : (req'[q].pc = "await_page" /\ req'[q] # req[q]) => FALSE

\* C7: once a fetch has stored a snapshot, a get that does not force a
\* refresh and arrives while now - timestamp < 600000 ms is answered with
\* cached = true and the data of the slot, issues no remote request and
\* leaves the slot unchanged.
C7_CacheHitServesSnapshot ==
    [][\A r \in Req, refresh \in RefreshParams \ {"true"} :
         (AssetsArrives(r, refresh) /\ Populated /\ Age < 600000) =>
            /\ Responds(r)
            /\ sent'.kind = "assets"
            /\ sent'.resp.code = 200
            /\ sent'.resp.cached
            /\ sent'.resp.cache_age * 1000 - Age \in -500..500
            /\ Carries(sent'.resp, assetCache.data)
            /\ NoPageRequest
            /\ assetCache' = assetCache]_vars

\* a cached answer, five minutes old, to a snapshot of one asset
C7_Witness ==
    /\ sent.kind = "assets"
    /\ sent.resp.code = 200
    /\ sent.resp.cached
    /\ sent.resp.cache_age > 0
    /\ sent.resp.total = 1
    /\ Carries(sent.resp, assetCache.data)

\* the fetch of slot r ends in this step, all its pages answered
FetchSucceeds(r) ==
    /\ req[r].kind = "assets"
    /\ req[r].pc = "resume_page"
    /\ req[r].reply.ok
    /\ req'[r] # req[r]
    /\ req'[r].pc # "await_page"

\* C8: a get that finds the slot empty, or forces a refresh, or arrives when
\* now - timestamp >= 600000 ms starts a remote refetch at offset 0; a fetch
\* that succeeds replaces the slot with the new snapshot and the time the
\* get arrived, and answers cached = false with age 0; a cached answer is
\* only ever given while now - timestamp < 600000 ms.
C8_CacheMissRefetches ==
    /\ [][\A r \in Req, refresh \in RefreshParams :
            (AssetsArrives(r, refresh)
               /\ (refresh = "true" \/ ~Populated \/ Age >= 600000)) =>
               /\ req'[r].kind = "assets"
               /\ req'[r].pc = "await_page"
               /\ req'[r].offset = 0
               /\ req'[r].allAssets = <<>>
               /\ req'[r].now = clock
               /\ assetCache' = assetCache
               /\ sent' = sent]_vars
    /\ [][\A r \in Req : FetchSucceeds(r) =>
            /\ Responds(r)
            /\ sent'.resp.code = 200
            /\ ~sent'.resp.cached
            /\ sent'.resp.cache_age = 0
            /\ assetCache'.timestamp = Num(req[r].now)
            /\ assetCache'.data.total =
                  Length(req[r].allAssets) + Length(req[r].reply.rows)
            /\ Length(assetCache'.data.all_assets) = assetCache'.data.total
            /\ Carries(sent'.resp, assetCache'.data)]_vars
    /\ [][\A r \in Req :
            (Responds(r) /\ sent'.kind = "assets" /\ sent'.resp.code = 200
               /\ sent'.resp.cached) =>
               Populated /\ Age < 600000]_vars

\* a get that did not force a refresh has refetched, the stored snapshot
\* being ten minutes old, and its last page has been answered
C8_Witness ==
    \E r \in Req :
       /\ req[r].kind = "assets"
       /\ req[r].pc = "resume_page"
       /\ req[r].reply.ok
       /\ ~req[r].forceRefresh
       /\ Populated
       /\ req[r].now - assetCache.timestamp.val >= 600000

-----------------------------------------------------------------------------
(* The classification.                                                     *)

\* the assets of a bucket
Assets(bucket) == {bucket[k].asset : k \in DOMAIN bucket}

\* the last_audit_date of a raw asset is absent
Absent(asset) == asset.last_audit_date.type \in {"undefined", "null"}

IsOverdue(run) == run.asset.audit_overdue

\* C9: for every list of raw assets the never_audited and
\* not_audited_this_year buckets of the result have no asset in common; an
\* asset whose last_audit_date is absent has never_audited true, is in the
\* never_audited bucket and is not in the not_audited_this_year bucket; the
\* audit_overdue bucket holds exactly the assets flagged overdue, whatever
\* the other two buckets hold.
C9_BucketsPartition ==
    [][(req[1].kind = "classify" /\ Responds(1)) =>
         LET in == req[1].allAssets
             res == sent'.resp
         IN  /\ Assets(res.never_audited) \cap Assets(res.not_audited_this_year) = {}
             /\ Length(res.never_audited) + Length(res.not_audited_this_year)
                   <= Length(in)
             /\ Len(res.all_assets) = Len(in)
             /\ \A k \in DOMAIN in : Absent(in[k].asset) =>
                   /\ res.all_assets[k].asset.never_audited
                   /\ res.all_assets[k].n = in[k].n
                   /\ res.all_assets[k].asset \in Assets(res.never_audited)
                   /\ res.all_assets[k].asset \notin Assets(res.not_audited_this_year)
             /\ res.audit_overdue = SelectSeq(res.all_assets, IsOverdue)]_vars

\* a result whose audit_overdue bucket shares an asset with each of the
\* other two buckets
C9_Witness ==
    /\ sent.kind = "classify"
    /\ Assets(sent.resp.audit_overdue) \cap Assets(sent.resp.never_audited) # {}
    /\ Assets(sent.resp.audit_overdue) \cap Assets(sent.resp.not_audited_this_year) # {}

-----------------------------------------------------------------------------
(* Validation.                                                             *)

\* a search term that is missing, empty or only whitespace
BlankQuery(query) ==
    ~query.present \/ \A k \in DOMAIN query.chars : query.chars[k] \in {" ", "\t"}

\* a location id that is missing or empty
EmptyLocation(location_id) == location_id \in {Undef, JNull, Str(0)}

\* a list of audit ids that is missing, not an array, or empty
BadIds(in) == ~in.isArray \/ in.audit_ids = <<>>

ValidationErrors ==
    {"Search query required", "location_id is required", "audit_ids array is required"}

\* the request that arrived in slot r is answered 400 with the given text in
\* the step it arrives in: it never waits for the remote service, and the
\* audit store and the cache are as they were
Rejected(r, text) ==
    /\ Responds(r)
    /\ sent'.resp = Err(400, text)
    /\ \A q \in Req : req'[q] = req[q]
    /\ audits' = audits
    /\ lastId' = lastId
    /\ assetCache' = assetCache

\* C10: a search with a missing, empty or whitespace-only term, a location
\* patch with a missing or empty location id and a resolve request with a
\* missing, non-array or empty list of audit ids, each passing the
\* credential checks that come first, are answered 400 with a validation
\* error before any remote request is issued and without a change to the
\* audit store or the cache; no answer given after a remote call (remote
\* error, not found) carries one of the validation errors.
C10_ValidationBeforeRemote ==
    [][\A r \in Req :
         /\ Arrives(r) =>
               /\ \A query \in {q \in Queries : BlankQuery(q)} :
                     SearchRequest(r, "token", query) =>
                        Rejected(r, "Search query required")
               /\ \A location_id \in {l \in LocationIds : EmptyLocation(l)} :
                     UpdateLocationRequest(r, ADMIN_PASSWORD, "token", location_id) =>
                        Rejected(r, "location_id is required")
               /\ \A in \in {i \in ResolveInputs : BadIds(i)} :
                     ResolveRequest(r, ADMIN_PASSWORD, "token", in) =>
                        Rejected(r, "audit_ids array is required")
         /\ (req[r].pc # "idle" /\ Responds(r) /\ sent'.resp.code # 200) =>
               sent'.resp.error \notin ValidationErrors]_vars

\* a search for a whitespace-only term was rejected while an audit is stored
\* and a snapshot is cached
C10_Witness ==
    /\ sent.kind = "search"
    /\ sent.resp = Err(400, "Search query required")
    /\ audits # <<>>
    /\ Populated

-----------------------------------------------------------------------------
(* The two phases of the search.                                           *)

\* the tag lookup of slot r has been answered with an asset
FoundByTag(r) ==
    /\ req[r].kind = "search"
    /\ req[r].pc = "resume_tag"
    /\ req[r].reply.ok
    /\ req[r].reply.data.id \notin {Undef, JNull, Num(0)}

\* slot r requests the text search in this step
RequestsTextSearch(r) ==
    /\ req'[r].pc = "await_search"
    /\ req[r].pc # "await_search"

\* the same string but for the case of its letters
SameText(s, t) == toLowerCase(s) = toLowerCase(t)

\* an asset that the term names by its tag or by the value of a SAP field
Names(term, asset) ==
    \/ asset.asset_tag # <<>> /\ SameText(asset.asset_tag, term)
    \/ /\ asset.hasFields
       /\ \E k \in DOMAIN asset.custom_fields :
             LET f == asset.custom_fields[k] IN
             /\ \/ includes(toLowerCase(f.name), <<"s", "a", "p">>)
                \/ includes(toLowerCase(f.field), <<"s", "a", "p">>)
             /\ f.value # <<>>
             /\ SameText(f.value, term)

\* C11: when the tag lookup returns an asset, that asset is the answer and
\* no text search is requested; the text search is requested only by a
\* handler whose tag lookup yielded no asset; when the text search succeeds,
\* the answer is a row the term names by tag or SAP field, or 404 when no
\* row is named, never another error.
C11_TwoPhaseSearch ==
    /\ [][\A r \in Req : (FoundByTag(r) /\ req'[r] # req[r]) =>
            /\ Responds(r)
            /\ sent'.resp = [code |-> 200, asset |-> req[r].reply.data]
            /\ ~RequestsTextSearch(r)]_vars
    /\ [][\A r \in Req : RequestsTextSearch(r) =>
            /\ req[r].kind = "search"
            /\ req[r].pc = "resume_tag"
            /\ ~FoundByTag(r)]_vars
    /\ [][\A r \in Req :
            (req[r].kind = "search" /\ req[r].pc = "resume_search"
               /\ req[r].reply.ok /\ req'[r] # req[r]) =>
               LET rows == req[r].reply.rows
                   term == req[r].searchTerm
               IN  /\ Responds(r)
                   /\ IF \E k \in DOMAIN rows : Names(term, rows[k])
                      THEN /\ sent'.resp.code = 200
                           /\ \E k \in DOMAIN rows : sent'.resp.asset = rows[k]
                           /\ Names(term, sent'.resp.asset)
                      ELSE /\ sent'.resp.code = 404
                           /\ sent'.resp.error # "Failed to search asset"]_vars

\* a search whose tag lookup failed and whose text search named no row was
\* answered 404
C11_Witness ==
    /\ sent.kind = "search"
    /\ sent.resp.code = 404

-----------------------------------------------------------------------------
(* The order of patch and update.                                          *)

\* the record id is written in this step
Written(id) ==
    /\ id \in DOMAIN audits
    /\ id \in DOMAIN audits'
    /\ audits'[id] # audits[id]

\* C12: a stored record is written after its INSERT only by a resolve
\* handler that resumes from a location patch that succeeded, issued for
\* that record's asset with the record's actual_location_id, and the write
\* sets status 'resolved'; a handler whose patch failed writes nothing, and
\* a handler waiting for its patch has not yet written the record it read.
C12_PatchThenUpdate ==
    /\ [][\A id \in AuditIds : Written(id) =>
            /\ audits'[id].status = "resolved"
            /\ \E r \in Req :
                  /\ ResolveResumes(r)
                  /\ req[r].reply
                  /\ Patching(r) = id
                  /\ req[r].patch.asset_id = audits[id].asset_id
                  /\ req[r].patch.rtd_location_id = audits[id].actual_location_id]_vars
    /\ [][\A r \in Req : (ResolveResumes(r) /\ ~req[r].reply) => audits' = audits]_vars
    /\ [][\A r \in Req :
            (InPatch(r)' /\ req'[r].pc = "await_patch" /\ req'[r] # req[r]) =>
               /\ req'[r].audit = audits'[Patching(r)']
               /\ req'[r].audit.status = "mismatch"]_vars

\* a resolve answered with one record resolved at the current time
C12_Witness ==
    /\ sent.kind = "resolve"
    /\ sent.resp.code = 200
    /\ sent.resp.resolved = 1
    /\ sent.resp.failed = 0
    /\ audits[sent.resp.results[1].id].resolved_at = IsoString(clock)

-----------------------------------------------------------------------------
(* The paged fetch.                                                        *)

\* the page request of slot r has been answered and the handler resumes
PageResumes(r) ==
    /\ req[r].kind = "assets"
    /\ req[r].pc = "resume_page"
    /\ req[r].reply.ok
    /\ req'[r] # req[r]

\* the rows the fetch of slot r holds once the answered page is added
Accumulated(r) == Length(req[r].allAssets) + Length(req[r].reply.rows)

\* the handler of slot r requests another page in this step
RequestsNextPage(r) == PageResumes(r) /\ req'[r].pc = "await_page"

\* C13, the order of the requests: pages are requested at offsets 0, 500,
\* 1000, ..., each offset being the number of rows accumulated, and the
\* loop stops exactly when the answered page has fewer than 500 rows or the
\* accumulated rows reach the total reported with that page.
C13_PagesInOrder ==
    /\ [](\A r \in Req : (req[r].kind = "assets") =>
            /\ req[r].offset % 500 = 0
            /\ req[r].offset = Length(req[r].allAssets))
    /\ [][\A r \in Req : PageResumes(r) =>
            LET short == Length(req[r].reply.rows) < 500
                reached == /\ req[r].reply.total.type \in {"number", "null"}
                           /\ Accumulated(r) >= req[r].reply.total.val
            IN  IF short \/ reached
                THEN Responds(r) /\ sent'.resp.code = 200
                ELSE /\ req'[r].pc = "await_page"
                     /\ req'[r].offset = req[r].offset + 500]_vars

\* C13, the guard: the loop cannot go on forever whatever the remote
\* answers.  As a property of finite runs: the handler requests another
\* page only while a total reported by the remote bounds the requests still
\* to come, that is, the total reported with the page just answered is a
\* number and exceeds the rows accumulated.
C13_LoopIsGuarded ==
    [][\A r \in Req : RequestsNextPage(r) =>
          /\ req[r].reply.total.type = "number"
          /\ Accumulated(r) < req[r].reply.total.val]_vars

-----------------------------------------------------------------------------
(* The flag not_audited_this_year.                                         *)

\* the last-audit date of a raw asset parses to a date before January 1 of
\* the current year
AuditedBeforeThisYear(asset) ==
    LET d == asset.last_audit_date
        text == IF d.type = "string" THEN d.str
                ELSE IF d.type = "object" /\ d.datetime # "" THEN d.datetime
                ELSE IF d.type = "object" THEN d.formatted
                ELSE ""
    IN  /\ text \in DOMAIN DateTable
        /\ DateTable[text] < 0

\* C14: not_audited_this_year is true exactly when never_audited is true or
\* the last-audit date parses to a date before January 1 of the current
\* year; an asset that is not never_audited and whose last_audit_date does
\* not parse to a date is not flagged and is not in the
\* not_audited_this_year bucket.
C14_FlagNeedsParsedDate ==
    [][(req[1].kind = "classify" /\ Responds(1)) =>
         LET in == req[1].allAssets
             res == sent'.resp
         IN  \A k \in DOMAIN in :
                LET a == res.all_assets[k].asset IN
                /\ a.not_audited_this_year =
                      (a.never_audited \/ AuditedBeforeThisYear(in[k].asset))
                /\ a \in Assets(res.not_audited_this_year) =>
                      AuditedBeforeThisYear(in[k].asset)]_vars

-----------------------------------------------------------------------------
(* A refetch that fails.                                                   *)

\* a page request of the fetch of slot r has failed and the handler resumes
FetchFails(r) ==
    /\ req[r].kind = "assets"
    /\ req[r].pc = "resume_page"
    /\ ~req[r].reply.ok
    /\ req'[r] # req[r]

\* a step of the snapshot request of slot r
AssetsStep(r) ==
    /\ req'[r] # req[r]
    /\ req[r].kind = "assets" \/ req'[r].kind = "assets"

\* the last response was the error of a failed fetch
FetchFailed == sent.kind = "assets" /\ sent.resp.code >= 500

\* C15: when a page request of a refetch fails, the request answers with the
\* status of the remote's error (500 when it has none) and no step of that
\* request has written the slot: data and timestamp stay as they were, and
\* a get that does not force a refresh and arrives next, the stored snapshot
\* being still fresh, is answered from the slot.
C15_FailedFetchKeepsCache ==
    /\ [][\A r \in Req : FetchFails(r) =>
            /\ Responds(r)
            /\ sent'.kind = "assets"
            /\ sent'.resp.code = (IF req[r].reply.status.type = "number"
                                  THEN req[r].reply.status.val ELSE 500)
            /\ sent'.resp.error = "Failed to fetch assets from Snipe-IT"
            /\ assetCache' = assetCache]_vars
    /\ [][\A r \in Req : (AssetsStep(r) /\ ~FetchSucceeds(r)) =>
            assetCache' = assetCache]_vars
    /\ [][\A r \in Req, refresh \in RefreshParams \ {"true"} :
            (AssetsArrives(r, refresh) /\ FetchFailed /\ Populated
               /\ Age < 600000) =>
               /\ Responds(r)
               /\ sent'.resp.code = 200
               /\ sent'.resp.cached
               /\ Carries(sent'.resp, assetCache.data)]_vars

\* a forced refresh has failed with the remote's 503 while the slot holds a
\* snapshot that is still fresh
C15_Witness ==
    /\ FetchFailed
    /\ sent.resp.code = 503
    /\ Populated
    /\ Age < 600000

-----------------------------------------------------------------------------
(* The slot under racing refreshes.                                        *)

\* the snapshot the fetch of slot r stores when its last page is answered
SnapshotOf(r) ==
    Snapshot(req[r].allAssets \o req[r].reply.rows, clock)

\* the fetch of slot r wrote the whole slot in this step
WrittenBy(r) ==
    /\ FetchSucceeds(r)
    /\ assetCache'.data = SnapshotOf(r)
    /\ assetCache'.timestamp = Num(req[r].now)

\* C16: in every reachable state the data of the slot is null exactly when
\* its timestamp is null; every change of the slot is one step of one
\* request that completes its fetch and writes both the data it fetched and
\* the time it arrived, so the slot always holds the pair of the write that
\* completed last, and the completing request overwrites whatever pair
\* another request stored while it was fetching.
C16_SlotWrittenWhole ==
    /\ [](assetCache.data = JNull <=> assetCache.timestamp = JNull)
    /\ [][assetCache' # assetCache => \E r \in Req : WrittenBy(r)]_vars
    /\ [][\A r \in Req : FetchSucceeds(r) => WrittenBy(r)]_vars

\* two refreshes have raced: the one that arrived first is about to complete
\* while the slot holds the pair of the other, of a later time and of other
\* data
C16_Witness ==
    \E r \in Req :
       /\ req[r].kind = "assets"
       /\ req[r].pc = "resume_page"
       /\ req[r].reply.ok
       /\ LastPage(req[r].reply, Length(req[r].allAssets))
       /\ Populated
       /\ assetCache.timestamp.val > req[r].now
       /\ assetCache.data # SnapshotOf(r)

-----------------------------------------------------------------------------
(* The accounting of a resolve response.                                   *)

\* the ids at the positions S of a batch, in the order of the batch
IdsAt(ids, S) ==
    LET at == SelectSeq([k \in 1..Len(ids) |-> k], LAMBDA k : k \in S)
    IN  [j \in 1..Len(at) |-> ids[at[j]]]

IdsOf(items) == [k \in 1..Len(items) |-> items[k].id]

\* every position of the batch is itemized once, in results or in errors
EachOccurrenceOnce(ids, resp) ==
    \E S \in SUBSET (1..Len(ids)) :
       /\ IdsOf(resp.results) = IdsAt(ids, S)
       /\ IdsOf(resp.errors) = IdsAt(ids, (1..Len(ids)) \ S)
       /\ \A k \in 1..Len(resp.results) : resp.results[k].success

Counted(ids, resp) ==
    /\ resp.resolved = Len(resp.results)
    /\ resp.failed = Len(resp.errors)
    /\ resp.resolved + resp.failed = Len(ids)
    /\ resp.success <=> resp.failed = 0

\* slot r answers, in this step, an accepted resolve request for the batch ids
ResolveAnswers(r, ids) ==
    /\ Responds(r)
    /\ sent'.kind = "resolve"
    /\ sent'.resp.code = 200
    /\ \/ ResolveResumes(r) /\ req[r].in.audit_ids = ids
       \/ \E by \in {Undef, Str(5)} :
             ResolveRequest(r, ADMIN_PASSWORD, "token",
                 [isArray |-> TRUE, audit_ids |-> ids, resolved_by |-> by])

\* C17: the response to an accepted resolve request itemizes each occurrence
\* of an id of audit_ids in exactly one of results and errors, resolved +
\* failed is the length of audit_ids, success is true exactly when failed is
\* 0, and every id in results is the id of a record whose status is
\* 'resolved' when the response is produced.
C17_ResolveAccounting ==
    [][\A r \in Req, ids \in Batches :
         ResolveAnswers(r, ids) =>
            /\ EachOccurrenceOnce(ids, sent'.resp)
            /\ Counted(ids, sent'.resp)
            /\ \A id \in Ids(sent'.resp.results) :
                  id \in DOMAIN audits' /\ audits'[id].status = "resolved"]_vars

\* C17 amended: as stated, except that an id in results is the id of a
\* 'resolved' record only if the record still exists: a delete that ran
\* while the batch was suspended on a patch leaves the id in results with
\* no record behind it.
C17_AccountingOfSurvivors ==
    [][\A r \in Req, ids \in Batches :
         ResolveAnswers(r, ids) =>
            /\ EachOccurrenceOnce(ids, sent'.resp)
            /\ Counted(ids, sent'.resp)
            /\ \A id \in Ids(sent'.resp.results) :
                  id \in DOMAIN audits' => audits'[id].status = "resolved"]_vars

\* a batch naming one record twice has been answered: the first occurrence
\* in results, the second in errors
C17_Witness ==
    /\ sent.kind = "resolve"
    /\ sent.resp.code = 200
    /\ sent.resp.resolved = 1
    /\ sent.resp.failed = 1
    /\ IdsOf(sent.resp.results) = IdsOf(sent.resp.errors)
    /\ ~sent.resp.success

====
